---- MODULE Spec2Model ----
(***************************************************************************)
(* PlayView (gvd.dat) extractor: main.go modelled as a state machine.      *)
(*                                                                         *)
(* The input file is a sequence of bytes and the parser reads it through   *)
(* one cursor (pos), exactly as os.File does: a read delivers at most the  *)
(* bytes that are left, a seek may pass the end of the file.  One action   *)
(* per stage of main(): readHeader, readFileNames, and the stages of one   *)
(* iteration of readDatabase's page loop and tile loop.                    *)
(***************************************************************************)
EXTENDS Integers, Sequences, FiniteSets, TLC

(***************************************************************************)
(* Bounds of the input space.                                              *)
(***************************************************************************)
MaxTiles == 2
MaxPages == 2

(***************************************************************************)
(* Byte strings of the format (ASCII codes).                               *)
(***************************************************************************)
TGDT0100 == <<84, 71, 68, 84, 48, 49, 48, 48>>
GVEW0100JPEG0100 == <<71, 86, 69, 87, 48, 49, 48, 48, 74, 80, 69, 71, 48, 49, 48, 48>>
GVEW0100GVMP0100 == <<71, 86, 69, 87, 48, 49, 48, 48, 71, 86, 77, 80, 48, 49, 48, 48>>
BLK == <<66, 76, 75, 95>>
DatabasesStart == <<0, 0, 0, 1, 0, 0, 0, 0>>
StartImages == <<0, 0, 0, 2, 0, 0, 0, 0>>
GVMPHeader == <<71, 86, 77, 80>>
GVMPTwo == <<0, 0, 0, 2>>
GVMPThirtyTwo == <<0, 0, 0, 32>>
GVMPZero == <<0, 0, 0, 0>>
GvdSuffix == <<46, 103, 118, 100>>

Min(a, b) == IF a < b THEN a ELSE b

Zeros(n) == [k \in 1..n |-> 0]

(***************************************************************************)
(* os.File.Read through readBytes: one read delivers n = min(len, bytes    *)
(* left) bytes.  n = 0 with len > 0 is io.EOF: readBytes returns the empty *)
(* slice and the error.  0 < n < len is no error: the buffer made with     *)
(* make([]byte, len) keeps zeros behind the n bytes read.  The cursor      *)
(* advances by n.                                                          *)
(***************************************************************************)
readBytes(f, p, len) ==
    LET left == IF p >= Len(f) THEN 0 ELSE Len(f) - p
        n == Min(len, left)
    IN  IF len = 0 THEN [buf |-> <<>>, err |-> FALSE, n |-> 0, short |-> FALSE]
        ELSE IF n = 0 THEN [buf |-> <<>>, err |-> TRUE, n |-> 0, short |-> TRUE]
        ELSE [buf |-> SubSeq(f, p + 1, p + n) \o Zeros(len - n),
              err |-> FALSE, n |-> n, short |-> n < len]

readString(f, p, len) == readBytes(f, p, len)

BigEndianUint32(b) == ((b[1] * 256 + b[2]) * 256 + b[3]) * 256 + b[4]

readUint32(f, p) ==
    LET raw == readBytes(f, p, 4)
    IN  [val |-> IF raw.err THEN 0 ELSE BigEndianUint32(raw.buf),
         err |-> raw.err, n |-> raw.n, short |-> raw.short]

(***************************************************************************)
(* readCompare: ok = FALSE is log.Panicf.                                  *)
(***************************************************************************)
readCompareAlwaysOk(f, p, b) ==
    LET raw == readBytes(f, p, Len(b))
    IN  [ok |-> TRUE, n |-> raw.n, short |-> raw.short]

readCompare(f, p, b) ==
    LET raw == readBytes(f, p, Len(b))
    IN  [ok |-> raw.buf = b, n |-> raw.n, short |-> raw.short]

(***************************************************************************)
(* f.Seek: a seek to a negative offset fails and leaves the cursor; any    *)
(* other offset, also past the end, is taken.                              *)
(***************************************************************************)
SeekCur(p, off) == IF p + off < 0 THEN [pos |-> p, err |-> TRUE]
                   ELSE [pos |-> p + off, err |-> FALSE]

SeekStart(p, off) == IF off < 0 THEN [pos |-> p, err |-> TRUE]
                     ELSE [pos |-> off, err |-> FALSE]

(***************************************************************************)
(* strings.CutSuffix(s, ".gvd")                                            *)
(***************************************************************************)
CutSuffix(s, suf) ==
    IF Len(s) >= Len(suf) /\ SubSeq(s, Len(s) - Len(suf) + 1, Len(s)) = suf
    THEN SubSeq(s, 1, Len(s) - Len(suf))
    ELSE s

(***************************************************************************)
(* Input files.  A file is built from a description of its pages and       *)
(* tiles, laid out as the format lays it out (big-endian u32 fields, the   *)
(* literals, the payload stream), then possibly cut short.                 *)
(***************************************************************************)
U32(v) == <<(v \div 16777216) % 256, (v \div 65536) % 256, (v \div 256) % 256, v % 256>>

RECURSIVE Concat(_)
Concat(ss) == IF ss = <<>> THEN <<>> ELSE Head(ss) \o Concat(Tail(ss))

Fill(n, b) == [k \in 1..n |-> b]

AlignUp(n) == ((n + 15) \div 16) * 16

\* A literal with its last byte changed (badly written by the producer).
Spoil(lit, bad) == IF bad THEN [lit EXCEPT ![Len(lit)] = (lit[Len(lit)] + 1) % 256] ELSE lit

\* A decodable image of 256 x 256 pixels, and bytes that are no image.
GoodImage == <<255, 216, 1, 0, 1, 0, 255, 217>>
NoImage == <<1, 1, 1, 1, 1, 1, 1, 1>>

ImageBytes(valid) == IF valid THEN GoodImage ELSE NoImage

\* The bytes of a GVMP tile up to its 16-byte boundary: the 32-byte
\* sub-header, the first image, and (second # "none") padding and a second
\* image followed by two bytes the decoder ignores.  t.sub, when given,
\* is what the producer wrote as the three lengths of the sub-header.
GvmpBlob(t) ==
    LET first == ImageBytes(t.valid)
        hasSecond == t.second # "none"
        second == IF hasSecond THEN ImageBytes(t.second = "valid") \o <<0, 0>> ELSE <<>>
        padded == IF hasSecond THEN 32 + Len(first) + 8 ELSE 32
        head == Spoil(GVMPHeader, t.badSub = 1) \o Spoil(GVMPTwo, t.badSub = 2)
                \o Spoil(GVMPThirtyTwo, t.badSub = 3)
                \o (IF t.sub = <<>>
                    THEN U32(Len(first)) \o U32(padded) \o U32(Len(second))
                    ELSE U32(t.sub[1]) \o U32(t.sub[2]) \o U32(t.sub[3]))
                \o Spoil(GVMPZero, t.badSub = 4) \o Spoil(GVMPZero, t.badSub = 5)
        body == head \o first \o (IF hasSecond THEN Fill(8, 255) \o second ELSE <<>>)
    IN  body \o Fill(AlignUp(Len(body)) - Len(body), 255)

TilePayload(type, t) ==
    IF type = "gvmp" THEN GvmpBlob(t) ELSE ImageBytes(t.valid)

TileDescriptor(type, t) ==
    U32(t.x) \o U32(t.y) \o U32(t.layer) \o U32(Len(TilePayload(type, t)))
    \o U32(t.pad) \o U32(0) \o U32(256) \o U32(256)

ViewerKey(type) ==
    IF type = "jpeg" THEN GVEW0100JPEG0100
    ELSE IF type = "gvmp" THEN GVEW0100GVMP0100
    ELSE Spoil(GVEW0100JPEG0100, TRUE)

\* One viewer block: header, tile table, payload stream.
ViewerBlock(pg) ==
    LET T == Len(pg.tiles)
    IN  ViewerKey(pg.type) \o U32(pg.w) \o U32(pg.h)
        \o Spoil(BLK, pg.bad = "blk1")
        \o U32(pg.stride * T + pg.dbExtra)
        \o Spoil(DatabasesStart, pg.bad = "lit1")
        \o U32(pg.stride) \o U32(pg.param)
        \o Concat([k \in 1..T |-> TileDescriptor(pg.type, pg.tiles[k])])
        \o Spoil(BLK, pg.bad = "blk2")
        \o U32(0)
        \o Spoil(StartImages, pg.bad = "lit2")
        \o Concat([k \in 1..T |->
               TilePayload(pg.type, pg.tiles[k]) \o Fill(pg.tiles[k].pad, 255)])

PageName(p) == <<96 + p>> \o GvdSuffix

RECURSIVE ViewerOffset(_, _)
ViewerOffset(pgs, p) ==
    IF p = 1 THEN 16 * Len(pgs)
    ELSE ViewerOffset(pgs, p - 1) + AlignUp(Len(ViewerBlock(pgs[p - 1])))

\* The whole container: magic, page count, firstSectionLength, directory,
\* then (second section) a 16-byte slot per name and the viewer blocks.
Container(pgs, badMagic) ==
    LET N == Len(pgs)
        vb(p) == ViewerBlock(pgs[p])
    IN  Spoil(TGDT0100, badMagic) \o U32(N) \o U32(16 + 16 * N)
        \o Concat([p \in 1..N |->
               U32(16 * (p - 1)) \o U32(Len(PageName(p)))
               \o U32(ViewerOffset(pgs, p)) \o U32(Len(vb(p)))])
        \o Concat([p \in 1..N |->
               PageName(p) \o Fill(16 - Len(PageName(p)), 0)])
        \o Concat([p \in 1..N |->
               vb(p) \o Fill(AlignUp(Len(vb(p))) - Len(vb(p)), 0)])

Truncate(f, n) == SubSeq(f, 1, n)

(***************************************************************************)
(* State.  The configuration (MergeImages .. LoadFullImages) and the file  *)
(* are fixed by Init.  pos is the cursor of the one file handle.  i and j  *)
(* are the loop indices of readDatabase (0-based, as in the code).         *)
(* artifacts is what was written to OutDir and warnings what was logged    *)
(* as overlapping.  failure, ioerr, tileLog and litChecks record what the  *)
(* run did: the panic message, the stages in which a read came up short   *)
(* or a seek failed, one entry per tile visited, every literal compared.   *)
(***************************************************************************)
VARIABLES file, MergeImages, TargetLayer, TargetPage, LoadFullImages,
          pc, pos, totalDataEntries, totalLengthFirstPart, pages,
          i, j, numImages, mergedImage, handled, hasAnyImageData,
          artifacts, warnings, failure, ioerr, tileLog, litChecks

config == <<file, MergeImages, TargetLayer, TargetPage, LoadFullImages>>
globals == <<totalDataEntries, totalLengthFirstPart, pages>>
pageLocals == <<numImages, mergedImage, handled, hasAnyImageData>>
outputs == <<artifacts, warnings>>
vars == <<file, MergeImages, TargetLayer, TargetPage, LoadFullImages,
          pc, pos, totalDataEntries, totalLengthFirstPart, pages,
          i, j, numImages, mergedImage, handled, hasAnyImageData,
          artifacts, warnings, failure, ioerr, tileLog, litChecks>>

PageInfo(a, b, c, d) ==
    [offsetFileName |-> a, lengthFileName |-> b,
     offsetDataBaseViewer |-> c, lengthDataBaseViewer |-> d,
     fileName |-> <<>>, imageWidth |-> 0, imageHeight |-> 0,
     lengthDatabase |-> 0, images |-> <<>>, lengthImages |-> 0,
     paramLength |-> 0, entranceLength |-> 0, imageType |-> ""]

ImageInfo(w, h, l, len, pad, iw, ih) ==
    [gridPosW |-> w, gridPosH |-> h, layer |-> l, fileLength |-> len,
     fileLengthPadding |-> pad, width |-> iw, height |-> ih]

NoCanvas == [w |-> 0, h |-> 0, draws |-> <<>>]

(***************************************************************************)
(* The input space: seven families of files and configurations.            *)
(***************************************************************************)
Tile(x, layer, valid, pad, second, badSub) ==
    [x |-> x, y |-> 0, layer |-> layer, valid |-> valid, pad |-> pad,
     second |-> second, badSub |-> badSub, sub |-> <<>>]

Page(type, tiles) ==
    [type |-> type, tiles |-> tiles, w |-> 512, h |-> 256,
     stride |-> 32, param |-> 4, dbExtra |-> 0, bad |-> "none"]

GridLayer == {<<0, 0>>, <<0, 1>>, <<1, 0>>}

TileKinds(type) ==
    IF type = "jpeg"
    THEN {Tile(g[1], g[2], v, pad, "none", 0) :
            g \in GridLayer, v \in BOOLEAN, pad \in {0, 8}}
    ELSE {Tile(g[1], g[2], c[1], c[3], c[2], 0) :
            g \in GridLayer,
            c \in {<<TRUE, "none", 0>>, <<TRUE, "valid", 0>>,
                   <<TRUE, "invalid", 16>>, <<FALSE, "valid", 16>>}}

TileSeqs(type) == UNION {[1..n -> TileKinds(type)] : n \in 0..MaxTiles}

\* One page of any tiles, under every configuration.
RichPages == UNION {{Page(type, tiles) : tiles \in TileSeqs(type)} : type \in {"jpeg", "gvmp"}}

RichInputs ==
    {[pgs |-> <<pg>>, badMagic |-> FALSE, cut |-> -1,
      merge |-> m, layer |-> l, page |-> <<>>, full |-> h] :
        pg \in RichPages, m \in BOOLEAN, l \in {-1, 0, 1}, h \in BOOLEAN}

PlainTile == Tile(0, 0, TRUE, 8, "none", 0)
DualTile == Tile(0, 0, TRUE, 0, "valid", 0)

\* One page whose header fields entryStride, paramLength and databaseLength vary.
HeaderInputs ==
    {[pgs |-> <<[Page("jpeg", tiles) EXCEPT !.stride = s, !.param = q, !.dbExtra = e]>>,
      badMagic |-> FALSE, cut |-> -1,
      merge |-> TRUE, layer |-> 0, page |-> <<>>, full |-> TRUE] :
        tiles \in {<<>>, <<PlainTile>>}, s \in {0, 16, 24, 32}, q \in {4, 8}, e \in {0, 8}}

SimplePages == {Page("jpeg", <<PlainTile>>), Page("gvmp", <<DualTile>>), Page("bad", <<>>)}

\* Several simple pages, with and without a page filter.
PageInputs ==
    {[pgs |-> pgs, badMagic |-> FALSE, cut |-> -1,
      merge |-> m, layer |-> 0, page |-> t, full |-> TRUE] :
        pgs \in UNION {[1..n -> SimplePages] : n \in 1..MaxPages},
        m \in BOOLEAN, t \in {<<>>, <<98>>}}

BasePages ==
    <<Page("jpeg", <<Tile(0, 0, FALSE, 8, "none", 0), Tile(1, 0, TRUE, 0, "none", 0)>>),
      Page("gvmp", <<DualTile>>)>>

SpoiledPages ==
    {[BasePages EXCEPT ![p].bad = b] : p \in 1..2, b \in {"blk1", "lit1", "blk2", "lit2"}}
    \cup {[BasePages EXCEPT ![2].tiles[1].badSub = k] : k \in 1..5}

\* The base file with one literal spoiled, or cut short at any length.
DefectInputs ==
    {[pgs |-> pgs, badMagic |-> FALSE, cut |-> -1,
      merge |-> TRUE, layer |-> l, page |-> <<>>, full |-> h] :
        pgs \in SpoiledPages, l \in {-1, 0}, h \in BOOLEAN}
    \cup {[pgs |-> BasePages, badMagic |-> TRUE, cut |-> -1,
           merge |-> TRUE, layer |-> 0, page |-> <<>>, full |-> TRUE]}
    \cup {[pgs |-> BasePages, badMagic |-> FALSE, cut |-> n,
           merge |-> TRUE, layer |-> l, page |-> <<>>, full |-> h] :
            n \in 0..(Len(Container(BasePages, FALSE)) - 1), l \in {-1, 0}, h \in BOOLEAN}

GridSpots == {<<0, 0>>, <<1, 0>>, <<0, 1>>, <<2, 3>>}

\* A tile at a grid position: decodable, not decodable, or of layer 1.
GridTiles ==
    {[Tile(g[1], k[1], k[2], 0, "none", 0) EXCEPT !.y = g[2]] :
        g \in GridSpots, k \in {<<0, TRUE>>, <<0, FALSE>>, <<1, TRUE>>}}

\* One PlainJPEG page with tiles anywhere on the grid, merged, layer 0.
GridInputs ==
    {[pgs |-> <<Page("jpeg", tiles)>>, badMagic |-> FALSE, cut |-> -1,
      merge |-> TRUE, layer |-> 0, page |-> <<>>, full |-> TRUE] :
        tiles \in UNION {[1..n -> GridTiles] : n \in 1..MaxTiles}}

\* Lengths of a sub-header that do not describe the bytes behind it.
OddLengths == {<<8, 48, 10>>, <<8, 16, 10>>, <<8, 0, 0>>, <<24, 48, 10>>}

\* One DualJPEG page with one tile whose sub-header holds such lengths.
SubHeaderInputs ==
    {[pgs |-> <<Page("gvmp", <<[DualTile EXCEPT !.sub = l]>>)>>,
      badMagic |-> FALSE, cut |-> -1,
      merge |-> TRUE, layer |-> 0, page |-> <<>>, full |-> h] :
        l \in OddLengths, h \in BOOLEAN}

\* One DualJPEG page of two tiles: the first decodes or not, the second
\* has a sub-header literal that does not compare.
BrokenStreamInputs ==
    {[pgs |-> <<Page("gvmp", <<Tile(0, 0, v, 0, "none", 0), Tile(1, 0, TRUE, 0, "none", k)>>)>>,
      badMagic |-> FALSE, cut |-> -1,
      merge |-> m, layer |-> 0, page |-> <<>>, full |-> FALSE] :
        v \in BOOLEAN, k \in {1, 4}, m \in BOOLEAN}

InputFile(in) ==
    LET f == Container(in.pgs, in.badMagic)
    IN  IF in.cut < 0 THEN f ELSE Truncate(f, in.cut)

Start(in) ==
    /\ file = InputFile(in)
    /\ MergeImages = in.merge
    /\ TargetLayer = in.layer
    /\ TargetPage = in.page
    /\ LoadFullImages = in.full

Init ==
        /\ \/ \E in \in RichInputs : Start(in)
           \/ \E in \in HeaderInputs : Start(in)
           \/ \E in \in PageInputs : Start(in)
           \/ \E in \in DefectInputs : Start(in)
           \/ \E in \in GridInputs : Start(in)
           \/ \E in \in SubHeaderInputs : Start(in)
           \/ \E in \in BrokenStreamInputs : Start(in)
        /\ pc = "start"
        /\ pos = 0
        /\ totalDataEntries = 0
        /\ totalLengthFirstPart = 0
        /\ pages = <<>>
        /\ i = 0
        /\ j = 0
        /\ numImages = 0
        /\ mergedImage = NoCanvas
        /\ handled = {}
        /\ hasAnyImageData = FALSE
        /\ artifacts = <<>>
        /\ warnings = <<>>
        /\ failure = ""
        /\ ioerr = {}
        /\ tileLog = <<>>
        /\ litChecks = <<>>

\* The stage of the run in which a read came up short or a seek failed.
IoAt(stage, io) == IF io THEN {stage} ELSE {}

\* log.Panicf / panic / an error returned to main, which panics: the process ends.
Abort(msg, p, io, checks) ==
    /\ pc' = "failed"
    /\ failure' = msg
    /\ pos' = p
    /\ ioerr' = ioerr \cup io
    /\ litChecks' = litChecks \o checks

Check(lit, p) == [lit |-> lit, pos |-> p]

(***************************************************************************)
(* A run of consecutive reads at the cursor.  An item of the script is a   *)
(* literal for readCompare, or U for readUint32.  The run ends at the      *)
(* first literal that does not compare (bad is its place in the script).   *)
(* vals are the numbers read, checks the literals compared, err whether a  *)
(* readUint32 returned an error, short whether any read came up short.     *)
(***************************************************************************)
U == <<>>

RECURSIVE ReadFields(_, _, _, _)
ReadFields(f, p, script, k) ==
    IF k > Len(script)
    THEN [vals |-> <<>>, checks |-> <<>>, pos |-> p, bad |-> 0, err |-> FALSE, short |-> FALSE]
    ELSE IF script[k] = U
    THEN LET v == readUint32(f, p)
             rest == ReadFields(f, p + v.n, script, k + 1)
         IN  [rest EXCEPT !.vals = <<v.val>> \o @, !.err = @ \/ v.err, !.short = @ \/ v.short]
    ELSE LET c == readCompare(f, p, script[k])
         IN  IF ~c.ok
             THEN [vals |-> <<>>, checks |-> <<Check(script[k], p)>>, pos |-> p + c.n,
                   bad |-> k, err |-> FALSE, short |-> c.short]
             ELSE LET rest == ReadFields(f, p + c.n, script, k + 1)
                  IN  [rest EXCEPT !.checks = <<Check(script[k], p)>> \o @,
                                   !.short = @ \/ c.short]

(***************************************************************************)
(* readHeader: the magic, the page count, firstSectionLength and the       *)
(* directory.  Every error is returned, and main panics on it.             *)
(***************************************************************************)
RECURSIVE ReadDirectory(_, _, _, _)
ReadDirectory(f, p, n, acc) ==
    IF n = 0 THEN [pages |-> acc, pos |-> p, err |-> FALSE, short |-> FALSE]
    ELSE LET e == ReadFields(f, p, <<U, U, U, U>>, 1)
         IN  IF e.err
             THEN [pages |-> acc, pos |-> e.pos, err |-> TRUE, short |-> TRUE]
             ELSE LET rest == ReadDirectory(f, e.pos, n - 1,
                                  Append(acc, PageInfo(e.vals[1], e.vals[2],
                                                       e.vals[3], e.vals[4])))
                  IN  [rest EXCEPT !.short = @ \/ e.short]

readHeader ==
    /\ pc = "start"
    /\ LET hdr == readString(file, pos, 8)
           two == ReadFields(file, pos + hdr.n, <<U, U>>, 1)
           dir == ReadDirectory(file, two.pos, two.vals[1], <<>>)
       IN  IF hdr.err
           THEN Abort("EOF", pos, {"header"}, <<>>) /\ UNCHANGED globals
           ELSE IF hdr.buf # TGDT0100
           THEN Abort("header mismatch", pos + hdr.n, IoAt("header", hdr.short),
                      <<Check(TGDT0100, pos)>>)
                /\ UNCHANGED globals
           ELSE /\ totalDataEntries' = two.vals[1]
                /\ totalLengthFirstPart' = two.vals[2]
                /\ IF two.err
                   THEN Abort("EOF", two.pos, {"header"}, <<Check(TGDT0100, pos)>>)
                        /\ UNCHANGED pages
                   ELSE /\ pages' = dir.pages
                        /\ IF dir.err
                           THEN Abort("EOF", dir.pos, {"header"}, <<Check(TGDT0100, pos)>>)
                           ELSE /\ pc' = "names"
                                /\ pos' = dir.pos
                                /\ ioerr' = ioerr \cup IoAt("header", hdr.short \/ two.short \/ dir.short)
                                /\ litChecks' = Append(litChecks, Check(TGDT0100, pos))
                                /\ UNCHANGED failure
    /\ UNCHANGED <<config, i, j, pageLocals, outputs, tileLog>>

(***************************************************************************)
(* readFileNames: seek to each name, read it, cut ".gvd".  Errors are      *)
(* returned.                                                               *)
(***************************************************************************)
RECURSIVE ReadNames(_, _, _, _, _)
ReadNames(f, base, pgs, k, p) ==
    IF k > Len(pgs) THEN [pages |-> pgs, pos |-> p, err |-> FALSE, short |-> FALSE]
    ELSE LET sk == SeekStart(p, base + pgs[k].offsetFileName)
             nm == readString(f, sk.pos, pgs[k].lengthFileName)
         IN  IF sk.err \/ nm.err
             THEN [pages |-> pgs, pos |-> sk.pos, err |-> TRUE, short |-> TRUE]
             ELSE LET rest == ReadNames(f, base,
                                  [pgs EXCEPT ![k].fileName = CutSuffix(nm.buf, GvdSuffix)],
                                  k + 1, sk.pos + nm.n)
                  IN  [rest EXCEPT !.short = @ \/ nm.short]

readFileNames ==
    /\ pc = "names"
    /\ LET r == ReadNames(file, totalLengthFirstPart, pages, 1, pos)
       IN  /\ pages' = r.pages
           /\ IF r.err
              THEN Abort("unable to read filename", r.pos, {"names"}, <<>>)
              ELSE /\ pc' = "db"
                   /\ pos' = r.pos
                   /\ ioerr' = ioerr \cup IoAt("names", r.short)
                   /\ UNCHANGED <<failure, litChecks>>
    /\ UNCHANGED <<config, totalDataEntries, totalLengthFirstPart, i, j,
                   pageLocals, outputs, tileLog>>

(***************************************************************************)
(* readDatabase, the page loop.  A page that the page filter excludes is   *)
(* passed over; after the last page main logs "done".                      *)
(***************************************************************************)
PageFilteredNever == FALSE

PageFiltered == TargetPage # <<>> /\ TargetPage # pages[i + 1].fileName

skipPage ==
    /\ pc = "db"
    /\ i < totalDataEntries
    /\ PageFiltered
    /\ i' = i + 1
    /\ UNCHANGED <<config, pc, pos, globals, j, pageLocals, outputs,
                   failure, ioerr, tileLog, litChecks>>

finish ==
    /\ pc = "db"
    /\ i >= totalDataEntries
    /\ pc' = "done"
    /\ UNCHANGED <<config, pos, globals, i, j, pageLocals, outputs,
                   failure, ioerr, tileLog, litChecks>>

(***************************************************************************)
(* The viewer header: key, width, height, BLK_, databaseLength, the        *)
(* databases-start literal, entry length, parameter length.  The errors    *)
(* of the seek and of the reads are dropped; an unknown key and a literal  *)
(* that does not compare panic.                                            *)
(***************************************************************************)
KeyTypeLenient(key) ==
    IF key = GVEW0100GVMP0100 THEN "gvmp" ELSE "jpeg"

KeyType(key) ==
    IF key = GVEW0100JPEG0100 THEN "jpeg"
    ELSE IF key = GVEW0100GVMP0100 THEN "gvmp"
    ELSE ""

ViewerFields == <<U, U, BLK, U, DatabasesStart, U, U>>

Val(vals, k) == IF k <= Len(vals) THEN vals[k] ELSE 0

readViewerHeader ==
    /\ pc = "db"
    /\ i < totalDataEntries
    /\ ~PageFiltered
    /\ LET pg == pages[i + 1]
           sk == SeekStart(pos, totalLengthFirstPart + pg.offsetDataBaseViewer)
           key == readString(file, sk.pos, 16)
           r == ReadFields(file, sk.pos + key.n, ViewerFields, 1)
       IN  IF KeyType(key.buf) = ""
           THEN /\ Abort("unknown database type", sk.pos + key.n,
                         IoAt("viewer", sk.err \/ key.short), <<>>)
                /\ UNCHANGED pages
           ELSE /\ pages' = [pages EXCEPT ![i + 1] =
                               [pg EXCEPT !.imageType = KeyType(key.buf),
                                          !.imageWidth = Val(r.vals, 1),
                                          !.imageHeight = Val(r.vals, 2),
                                          !.lengthDatabase = Val(r.vals, 3),
                                          !.entranceLength = Val(r.vals, 4),
                                          !.paramLength = Val(r.vals, 5)]]
                /\ IF r.bad # 0
                   THEN Abort("does not compare", r.pos,
                              IoAt("viewer", sk.err \/ key.short \/ r.short), r.checks)
                   ELSE /\ pc' = "viewer"
                        /\ pos' = r.pos
                        /\ ioerr' = ioerr \cup IoAt("viewer", sk.err \/ key.short \/ r.short)
                        /\ litChecks' = litChecks \o r.checks
                        /\ UNCHANGED failure
    /\ UNCHANGED <<config, totalDataEntries, totalLengthFirstPart, i, j,
                   pageLocals, outputs, tileLog>>

(***************************************************************************)
(* The tile table: numImages = lengthDatabase / entranceLength (Go's       *)
(* integer division, which panics on a zero divisor), then numImages       *)
(* entries of eight u32 each.  The parameter length is looked at inside    *)
(* the loop only.  Read errors are dropped: a field past the end is 0.     *)
(***************************************************************************)
nextEntryByStride(p, e) == p + pages[i + 1].entranceLength

\* The next descriptor is read where the eight reads of this one ended.
nextEntry(p, e) == e.pos

RECURSIVE ReadImages(_, _, _, _)
ReadImages(f, p, n, acc) ==
    IF n = 0 THEN [images |-> acc, pos |-> p, short |-> FALSE]
    ELSE LET e == ReadFields(f, p, <<U, U, U, U, U, U, U, U>>, 1)
             rest == ReadImages(f, nextEntry(p, e), n - 1,
                         Append(acc, ImageInfo(e.vals[1], e.vals[2], e.vals[3], e.vals[4],
                                               e.vals[5], e.vals[7], e.vals[8])))
         IN  [rest EXCEPT !.short = @ \/ e.short]

NumImages(lengthDatabase, entranceLength) == lengthDatabase \div entranceLength

readTileTable ==
    /\ pc = "viewer"
    /\ LET pg == pages[i + 1]
       IN  IF pg.entranceLength = 0
           THEN /\ Abort("integer divide by zero", pos, {}, <<>>)
                /\ UNCHANGED <<pages, numImages>>
           ELSE LET n == NumImages(pg.lengthDatabase, pg.entranceLength)
                    r == ReadImages(file, pos, n, <<>>)
                IN  /\ numImages' = n
                    /\ IF n > 0 /\ pg.paramLength # 4
                       THEN /\ Abort("not implemented", pos, {}, <<>>)
                            /\ pages' = [pages EXCEPT ![i + 1].images =
                                         [k \in 1..n |-> ImageInfo(0, 0, 0, 0, 0, 0, 0)]]
                       ELSE /\ pc' = "table"
                            /\ pos' = r.pos
                            /\ pages' = [pages EXCEPT ![i + 1].images = r.images]
                            /\ ioerr' = ioerr \cup IoAt("table", r.short)
                            /\ UNCHANGED <<failure, litChecks>>
    /\ UNCHANGED <<config, totalDataEntries, totalLengthFirstPart, i, j,
                   mergedImage, handled, hasAnyImageData, outputs, tileLog>>

(***************************************************************************)
(* After the table: BLK_, the total payload length, the start-images       *)
(* literal; then the page's canvas, overlap set and output flag are made.  *)
(***************************************************************************)
newCanvasReused(pg) ==
    [mergedImage EXCEPT !.w = pg.imageWidth, !.h = pg.imageHeight]

\* mergedImage := image.NewRGBA(image.Rect(0, 0, imageWidth, imageHeight))
newCanvas(pg) == [w |-> pg.imageWidth, h |-> pg.imageHeight, draws |-> <<>>]

readPayloadStart ==
    /\ pc = "table"
    /\ LET pg == pages[i + 1]
           r == ReadFields(file, pos, <<BLK, U, StartImages>>, 1)
       IN  /\ pages' = [pages EXCEPT ![i + 1].lengthImages = Val(r.vals, 1)]
           /\ IF r.bad # 0
              THEN /\ Abort("does not compare", r.pos, IoAt("images", r.short), r.checks)
                   /\ UNCHANGED <<j, mergedImage, handled, hasAnyImageData>>
              ELSE /\ pc' = "stream"
                   /\ pos' = r.pos
                   /\ j' = 0
                   /\ mergedImage' = newCanvas(pg)
                   /\ handled' = {}
                   /\ hasAnyImageData' = FALSE
                   /\ ioerr' = ioerr \cup IoAt("images", r.short)
                   /\ litChecks' = litChecks \o r.checks
                   /\ UNCHANGED failure
    /\ UNCHANGED <<config, totalDataEntries, totalLengthFirstPart, i, numImages,
                   outputs, tileLog>>

(***************************************************************************)
(* The payload of one tile that the layer filter lets through.             *)
(* extractTile is the code from the type test to the end of the read:      *)
(* for "gvmp" the 32-byte sub-header (five literals, three lengths), the   *)
(* choice of the first or the second image, and the move to the next       *)
(* 16-byte boundary of the file; otherwise fileLength bytes.               *)
(***************************************************************************)
Stay(p) == [pos |-> p, err |-> FALSE]

\* One more relative seek after the seek (or stay) s.
Then(s, off) == [pos |-> SeekCur(s.pos, off).pos, err |-> s.err \/ SeekCur(s.pos, off).err]

SubHeader == <<GVMPHeader, GVMPTwo, GVMPThirtyTwo, U, U, U, GVMPZero, GVMPZero>>

\* r.vals = <<imageLength, paddedImageLength, secondImageLength>> of the sub-header.
\* With LoadFullImages and a second image: seek over the first one.
skipFirstNever(full, r) == Stay(r.pos)

skipFirst(full, r) ==
    IF full /\ r.vals[2] # 32 THEN SeekCur(r.pos, r.vals[2] - 32) ELSE Stay(r.pos)

chosenLength(full, r) ==
    IF full /\ r.vals[2] # 32 THEN r.vals[3] ELSE r.vals[1]

\* Without LoadFullImages and with a second image: seek over the first
\* padding, then over the second image.
skipSecond(full, r, imageLength, p) ==
    IF ~full /\ r.vals[2] # 32
    THEN Then(SeekCur(p, r.vals[2] - imageLength - 32), r.vals[3])
    ELSE Stay(p)

alignCursorNever(s) == s

\* Align to next 16 byte block.
alignCursor(s) == IF s.pos % 16 # 0 THEN Then(s, 16 - (s.pos % 16)) ELSE s

dualExtracted(r, s1, raw, s3) ==
    [panic |-> FALSE, checks |-> r.checks, raw |-> raw.buf, pos |-> alignCursor(s3).pos,
     payloadEnd |-> s3.pos,
     io |-> r.short \/ s1.err \/ raw.short \/ alignCursor(s3).err]

dualRead(full, r, s1, imageLength, raw) ==
    dualExtracted(r, s1, raw, skipSecond(full, r, imageLength, s1.pos + raw.n))

dualImage(f, full, r, s1, imageLength) ==
    dualRead(full, r, s1, imageLength, readBytes(f, s1.pos, imageLength))

dualTile(f, full, r) ==
    IF r.bad # 0
    THEN [panic |-> TRUE, checks |-> r.checks, raw |-> <<>>, pos |-> r.pos,
          payloadEnd |-> r.pos, io |-> r.short]
    ELSE dualImage(f, full, r, skipFirst(full, r), chosenLength(full, r))

regularTile(p, raw) ==
    [panic |-> FALSE, checks |-> <<>>, raw |-> raw.buf, pos |-> p + raw.n,
     payloadEnd |-> p + raw.n, io |-> raw.short]

extractTile(f, p, img, type, full) ==
    IF type = "gvmp"
    THEN dualTile(f, full, ReadFields(f, p, SubHeader, 1))
    ELSE regularTile(p, readBytes(f, p, img.fileLength))

(***************************************************************************)
(* jpeg.Decode, the codec outside the program, as a function of the bytes  *)
(* it is given: it accepts a start-of-image marker, a height and a width   *)
(* (two bytes each) and an end-of-image marker, ignores what follows, and  *)
(* rejects everything else.                                                *)
(***************************************************************************)
jpegDecode(raw) ==
    IF Len(raw) >= 8 /\ SubSeq(raw, 1, 2) = <<255, 216>> /\ SubSeq(raw, 7, 8) = <<255, 217>>
    THEN [ok |-> TRUE, dy |-> raw[3] * 256 + raw[4], dx |-> raw[5] * 256 + raw[6]]
    ELSE [ok |-> FALSE, dy |-> 0, dx |-> 0]

(***************************************************************************)
(* One turn of the tile loop for a tile that is not filtered: extract,     *)
(* decode, and where the cursor is left.  The padding of the descriptor is *)
(* skipped in the branch of a decoded image.                               *)
(***************************************************************************)
decoded(img, x, d) ==
    [panic |-> x.panic, checks |-> x.checks, raw |-> x.raw,
     ok |-> ~x.panic /\ d.ok, dx |-> d.dx, dy |-> d.dy,
     payloadEnd |-> x.payloadEnd, aligned |-> x.pos,
     pos |-> IF ~x.panic /\ d.ok THEN SeekCur(x.pos, img.fileLengthPadding).pos ELSE x.pos,
     io |-> x.io \/ (~x.panic /\ d.ok /\ SeekCur(x.pos, img.fileLengthPadding).err)]

extracted(img, x) == decoded(img, x, jpegDecode(x.raw))

processTile(f, p, img, type, full) == extracted(img, extractTile(f, p, img, type, full))

\* The tile is of another layer than the one asked for: seek over it.
skipTile(p, img) == SeekCur(p, img.fileLength + img.fileLengthPadding)

TileFilteredNever(img) == FALSE

\* if TargetLayer != -1 && pages[i].images[j].layer != TargetLayer
TileFiltered(img) == TargetLayer # -1 /\ img.layer # TargetLayer

\* fmt.Sprintf("%v-%v", gridPosW, gridPosH): one key per pair of numbers.
handleKey(img) == <<img.gridPosW, img.gridPosH>>

drawOriginTransposed(img) == [x |-> img.gridPosH * 256, y |-> img.gridPosW * 256]

\* x := posW * 256, y := posH * 256
drawOrigin(img) == [x |-> img.gridPosW * 256, y |-> img.gridPosH * 256]

drawOverGrowing(canvas, d) ==
    [w |-> IF d.x + d.dx > canvas.w THEN d.x + d.dx ELSE canvas.w,
     h |-> IF d.y + d.dy > canvas.h THEN d.y + d.dy ELSE canvas.h,
     draws |-> Append(canvas.draws, d)]

\* draw.Draw(mergedImage, image.Rect(x, y, x+dx, y+dy), ...): the rectangle
\* is clipped to the bounds of the destination, which stay as they are.
drawOver(canvas, d) == [canvas EXCEPT !.draws = Append(@, d)]

Artifact(kind, tile, w, h, data, enc) ==
    [kind |-> kind, page |-> i, file |-> pages[i + 1].fileName, tile |-> tile,
     w |-> w, h |-> h, data |-> data, enc |-> enc]

Visit(img, end, skipped, t) ==
    [page |-> i, tile |-> j, layer |-> img.layer,
     gridPosW |-> img.gridPosW, gridPosH |-> img.gridPosH,
     start |-> pos, end |-> end, skipped |-> skipped,
     decoded |-> t.ok, warned |-> t.warned, rawLen |-> t.rawLen]

NextTileSkipping(k) == k + 2

\* for j := 0; j < numImages; j++
NextTile(k) == k + 1

tileSkipped ==
    /\ pc = "stream"
    /\ j < numImages
    /\ \E img \in {pages[i + 1].images[j + 1]} :
         /\ TileFiltered(img)
         /\ \E sk \in {skipTile(pos, img)} :
              /\ pos' = sk.pos
              /\ ioerr' = ioerr \cup IoAt("tiles", sk.err)
              /\ tileLog' = Append(tileLog,
                     Visit(img, sk.pos, TRUE,
                           [ok |-> FALSE, warned |-> FALSE, rawLen |-> 0]))
    /\ j' = NextTile(j)
    /\ UNCHANGED <<config, pc, globals, i, pageLocals, outputs, failure, litChecks>>

tileProcessed ==
    /\ pc = "stream"
    /\ j < numImages
    /\ \E img \in {pages[i + 1].images[j + 1]} :
         /\ ~TileFiltered(img)
         /\ \E t \in {processTile(file, pos, img, pages[i + 1].imageType, LoadFullImages)} :
              IF t.panic
              THEN /\ Abort("does not compare", t.pos, IoAt("tiles", t.io), t.checks)
                   /\ UNCHANGED <<j, mergedImage, handled, hasAnyImageData, outputs, tileLog>>
              ELSE /\ pos' = t.pos
                   /\ j' = NextTile(j)
                   /\ ioerr' = ioerr \cup IoAt("tiles", t.io)
                   /\ litChecks' = litChecks \o t.checks
                   /\ tileLog' = Append(tileLog,
                          Visit(img, t.pos, FALSE,
                                [ok |-> t.ok, warned |-> t.ok /\ handleKey(img) \in handled,
                                 rawLen |-> Len(t.raw)]))
                   /\ UNCHANGED <<pc, failure>>
                   /\ IF ~t.ok
                      THEN /\ artifacts' = Append(artifacts,
                                  Artifact("raw", j, -1, -1, t.raw, "none"))
                           /\ UNCHANGED <<mergedImage, handled, hasAnyImageData, warnings>>
                      ELSE /\ hasAnyImageData' = TRUE
                           /\ warnings' = IF handleKey(img) \in handled
                                          THEN Append(warnings, [page |-> i, tile |-> j])
                                          ELSE warnings
                           /\ handled' = handled \cup {handleKey(img)}
                           /\ IF MergeImages
                              THEN /\ mergedImage' = drawOver(mergedImage,
                                          [tile |-> j, layer |-> img.layer,
                                           x |-> drawOrigin(img).x,
                                           y |-> drawOrigin(img).y,
                                           dx |-> t.dx, dy |-> t.dy])
                                   /\ UNCHANGED artifacts
                              ELSE /\ artifacts' = Append(artifacts,
                                          Artifact("tile", j, img.gridPosW, img.gridPosH,
                                                   [dx |-> t.dx, dy |-> t.dy], "jpeg"))
                                   /\ UNCHANGED mergedImage
    /\ UNCHANGED <<config, globals, i, numImages>>

(***************************************************************************)
(* After the last tile: the merged image is saved when merging is on and   *)
(* some tile was decoded; then the next page.                              *)
(***************************************************************************)
SaveMergedAlways == hasAnyImageData

\* if MergeImages && hasAnyImageData
SaveMerged == MergeImages /\ hasAnyImageData

loopDoneEarly(k, n) == k >= 1

\* for j := int(0); j < numImages; j++ has run out
loopDone(k, n) == k >= n

exportPage ==
    /\ pc = "stream"
    /\ loopDone(j, numImages)
    /\ artifacts' = IF SaveMerged
                    THEN Append(artifacts, Artifact("canvas", -1, -1, -1, mergedImage, "png"))
                    ELSE artifacts
    /\ i' = i + 1
    /\ pc' = "db"
    /\ UNCHANGED <<config, pos, globals, j, pageLocals, warnings,
                   failure, ioerr, tileLog, litChecks>>

Next ==
    \/ readHeader
    \/ readFileNames
    \/ skipPage
    \/ readViewerHeader
    \/ readTileTable
    \/ readPayloadStart
    \/ tileSkipped
    \/ tileProcessed
    \/ exportPage
    \/ finish

Spec == Init /\ [][Next]_vars

(***************************************************************************)
(* Properties.  The tile log and the list of compared literals are read    *)
(* against the descriptors of the tile table and the bytes of the file.    *)
(***************************************************************************)
DatabaseStages == {"viewer", "table", "images", "tiles"}

CleanReads == ioerr = {}

CurrentTile == pages[i + 1].images[j + 1]

Visits(p) == {a \in 1..Len(tileLog) : tileLog[a].page = p}

RECURSIVE SumLengths(_, _)
SumLengths(imgs, n) ==
    IF n = 0 THEN 0
    ELSE imgs[n].fileLength + imgs[n].fileLengthPadding + SumLengths(imgs, n - 1)

\* Where the payload of the tile of log entry e starts according to the
\* descriptors: the start of the payload region of its page plus the
\* payloadLength + paddingLength of every earlier tile.
FirstVisit(p) == tileLog[CHOOSE a \in Visits(p) : tileLog[a].tile = 0]

DueStart(e) == FirstVisit(e.page).start + SumLengths(pages[e.page + 1].images, e.tile)

RawArtifacts(p, t) ==
    {a \in 1..Len(artifacts) :
        artifacts[a].kind = "raw" /\ artifacts[a].page = p /\ artifacts[a].tile = t}

Canvases(p) ==
    {a \in 1..Len(artifacts) : artifacts[a].kind = "canvas" /\ artifacts[a].page = p}

DecodedLayers(p) == {tileLog[a].layer : a \in {b \in Visits(p) : tileLog[b].decoded}}

DrawnLayers(canvas) == {canvas.draws[k].layer : k \in 1..Len(canvas.draws)}

\* C1: the cursor reached by skipping a tile (payloadLength + paddingLength
\* further) is the cursor reached by processing that same tile, so the
\* next tile starts at the same offset under every layer filter.
C1_SkipLeavesCursorWhereProcessingDoes ==
    (pc = "stream" /\ j < numImages /\ CleanReads) =>
        \A t \in {processTile(file, pos, CurrentTile, pages[i + 1].imageType, LoadFullImages)} :
            (~t.panic /\ ~t.io /\ ~skipTile(pos, CurrentTile).err)
                => skipTile(pos, CurrentTile).pos = t.pos

\* C2: a tile of a PlainJPEG page whose payload does not decode yields
\* exactly one raw artifact of payloadLength bytes for (page, tile), the
\* run does not fail on it, and every later tile of the page that is
\* processed is read from the offset its descriptors give it.
C2_DecodeFailureStaysInItsTile ==
    \A a \in 1..Len(tileLog) :
        (/\ CleanReads
         /\ pages[tileLog[a].page + 1].imageType = "jpeg"
         /\ ~tileLog[a].skipped
         /\ ~tileLog[a].decoded)
        => /\ Cardinality(RawArtifacts(tileLog[a].page, tileLog[a].tile)) = 1
           /\ \A r \in RawArtifacts(tileLog[a].page, tileLog[a].tile) :
                Len(artifacts[r].data)
                    = pages[tileLog[a].page + 1].images[tileLog[a].tile + 1].fileLength
           /\ failure = ""
           /\ \A b \in Visits(tileLog[a].page) :
                (b > a /\ ~tileLog[b].skipped) => tileLog[b].start = DueStart(tileLog[b])

\* C3: the tile count times entryStride is databaseLength for every page
\* whose tile table is built.
C3_TileCountTimesStrideIsDatabaseLength ==
    (pc \in {"table", "stream"} /\ CleanReads) =>
        /\ Len(pages[i + 1].images) = numImages
        /\ numImages * pages[i + 1].entranceLength = pages[i + 1].lengthDatabase

\* C4: for a DualJPEG tile, the run with hidden-area reveal on and the run
\* with reveal off leave the cursor at the same position before the next
\* tile.
C4_RevealLeavesCursorUnchanged ==
    (pc = "stream" /\ j < numImages /\ pages[i + 1].imageType = "gvmp" /\ CleanReads) =>
        \A on \in {processTile(file, pos, CurrentTile, "gvmp", TRUE)} :
            \A off \in {processTile(file, pos, CurrentTile, "gvmp", FALSE)} :
                (~on.panic /\ ~off.panic /\ ~on.io /\ ~off.io) => on.pos = off.pos

\* C5 (as stated): when the viewer key of a processed page is neither
\* literal, the run has written no artifact at all and read no tile table.
C5_BadKeyLeavesNoArtifactAtAll ==
    failure = "unknown database type" =>
        /\ artifacts = <<>>
        /\ \A p \in 1..Len(pages) : pages[p].images = <<>>

\* C5 (amended): a page is parsed further only under one of the two viewer
\* keys; under any other key the run fails before the tile table of that
\* page is read, with no tile of it visited and no artifact written for
\* it.  Artifacts of pages processed before it remain.
C5_BadKeyAbortsBeforeTileTable ==
    /\ pc \in {"viewer", "table", "stream"} =>
          readString(file, totalLengthFirstPart + pages[i + 1].offsetDataBaseViewer, 16).buf
              \in {GVEW0100JPEG0100, GVEW0100GVMP0100}
    /\ failure = "unknown database type" =>
          /\ pc = "failed"
          /\ readString(file, totalLengthFirstPart + pages[i + 1].offsetDataBaseViewer, 16).buf
                 \notin {GVEW0100JPEG0100, GVEW0100GVMP0100}
          /\ pages[i + 1].images = <<>>
          /\ pages[i + 1].imageType = ""
          /\ Visits(i) = {}
          /\ \A a \in 1..Len(artifacts) : artifacts[a].page < i

\* A later page with an unknown key fails the run after an earlier page
\* has been exported.
C5_Witness ==
    /\ failure = "unknown database type"
    /\ pc = "failed"
    /\ i > 0
    /\ artifacts # <<>>

\* C6: in merge mode a finished page has one canvas artifact for each
\* layer with a decoded tile and no other, and no canvas holds tiles of
\* two layers.
C6_OneCanvasPerPageAndLayer ==
    MergeImages =>
        \A p \in 0..(i - 1) :
            /\ Cardinality(Canvases(p)) = Cardinality(DecodedLayers(p))
            /\ \A a \in Canvases(p) : Cardinality(DrawnLayers(artifacts[a].data)) = 1

\* C7: a decoded tile is warned about exactly when an earlier decoded tile
\* of the same page and the same layer has the same grid coordinates.
C7_WarningIffRepeatInSameLayer ==
    \A a \in 1..Len(tileLog) :
        tileLog[a].decoded =>
            (tileLog[a].warned <=>
                \E b \in Visits(tileLog[a].page) :
                    /\ b < a
                    /\ tileLog[b].decoded
                    /\ tileLog[b].layer = tileLog[a].layer
                    /\ tileLog[b].gridPosW = tileLog[a].gridPosW
                    /\ tileLog[b].gridPosH = tileLog[a].gridPosH)

\* C8: the payload region of a page is streamed only when the paramLength
\* of its viewer header is 4, whatever the tile count.
C8_PayloadStreamedOnlyWithParamLengthFour ==
    (pc = "stream" /\ CleanReads) => pages[i + 1].paramLength = 4

\* C9: a read that came up short or a seek that failed while a viewer
\* header, a tile table or the payload stream was parsed has failed the
\* run.
C9_ReadFailureFailsTheRun ==
    (ioerr \cap DatabaseStages # {}) => pc = "failed"

\* A compared literal differs from the bytes the read delivers at its place.
Mismatch(c) == readBytes(file, c.pos, Len(c.lit)).buf # c.lit

Compared(lit, p) == \E k \in 1..Len(litChecks) : litChecks[k] = Check(lit, p)

LastCompared(lits) ==
    /\ Len(litChecks) >= Len(lits)
    /\ \A k \in 1..Len(lits) :
         litChecks[Len(litChecks) - Len(lits) + k].lit = lits[k]

\* C10: every literal of the format is compared where the run passes it,
\* and a literal that does not compare fails the run on the spot: it is
\* the last literal compared, and a failed run takes no further step.
C10_LiteralMismatchFailsTheRun ==
    /\ \A k \in 1..Len(litChecks) :
          Mismatch(litChecks[k]) => (pc = "failed" /\ k = Len(litChecks))
    /\ pc \notin {"start", "failed"} => (litChecks # <<>> /\ litChecks[1] = Check(TGDT0100, 0))
    /\ pc \in {"viewer", "table"} => LastCompared(<<BLK, DatabasesStart>>)
    /\ (pc = "viewer" /\ CleanReads) => litChecks[Len(litChecks)].pos = pos - 16
    /\ (pc = "stream" /\ j = 0 /\ CleanReads) =>
          /\ LastCompared(<<BLK, DatabasesStart, BLK, StartImages>>)
          /\ litChecks[Len(litChecks)].pos = pos - 8
    /\ \A a \in 1..Len(tileLog) :
          (pages[tileLog[a].page + 1].imageType = "gvmp" /\ ~tileLog[a].skipped) =>
              /\ Compared(GVMPHeader, tileLog[a].start)
              /\ Compared(GVMPTwo, tileLog[a].start + 4)
              /\ Compared(GVMPThirtyTwo, tileLog[a].start + 8)
              /\ Compared(GVMPZero, tileLog[a].start + 24)
              /\ Compared(GVMPZero, tileLog[a].start + 28)
    /\ pc = "failed" => ~ENABLED Next

\* A literal of the second page does not compare after the first page has
\* written an artifact: the run is failed with that literal compared last.
C10_Witness ==
    /\ pc = "failed"
    /\ failure = "does not compare"
    /\ i > 0
    /\ artifacts # <<>>
    /\ litChecks # <<>>
    /\ Mismatch(litChecks[Len(litChecks)])

TileArtifacts(p, t) ==
    {a \in 1..Len(artifacts) :
        artifacts[a].kind = "tile" /\ artifacts[a].page = p /\ artifacts[a].tile = t}

\* C11: every raster artifact written, merged canvas or single tile, is
\* encoded with the PNG encoder.
C11_RasterArtifactsAreLossless ==
    \A a \in 1..Len(artifacts) :
        artifacts[a].kind \in {"tile", "canvas"} => artifacts[a].enc = "png"

\* C12: with merging off, each decoded tile has exactly one artifact of
\* its own, named by page, tile index and grid coordinates, a tile
\* artifact exists for decoded tiles only, nothing is drawn on the canvas
\* and no canvas artifact is written.
C12_PerTileExportWithoutCanvas ==
    ~MergeImages =>
        /\ \A a \in 1..Len(artifacts) : artifacts[a].kind # "canvas"
        /\ mergedImage.draws = <<>>
        /\ \A a \in 1..Len(tileLog) :
              IF tileLog[a].decoded
              THEN /\ Cardinality(TileArtifacts(tileLog[a].page, tileLog[a].tile)) = 1
                   /\ \A k \in TileArtifacts(tileLog[a].page, tileLog[a].tile) :
                        /\ artifacts[k].file = pages[tileLog[a].page + 1].fileName
                        /\ artifacts[k].w = tileLog[a].gridPosW
                        /\ artifacts[k].h = tileLog[a].gridPosH
              ELSE TileArtifacts(tileLog[a].page, tileLog[a].tile) = {}
        /\ \A k \in 1..Len(artifacts) :
              artifacts[k].kind = "tile" =>
                  \E a \in Visits(artifacts[k].page) : tileLog[a].tile = artifacts[k].tile

\* A finished run without merging that exported two decoded tiles of one
\* page, the second at grid (1, 0).
C12_Witness ==
    /\ ~MergeImages
    /\ pc = "done"
    /\ \E a \in 1..Len(artifacts) :
          artifacts[a].kind = "tile" /\ artifacts[a].tile = 1 /\ artifacts[a].w = 1
    /\ \E a \in 1..Len(artifacts) : artifacts[a].kind = "tile" /\ artifacts[a].tile = 0

\* The sub-header of the DualJPEG tile that starts at offset p, and len
\* bytes of the file from offset p on.
SubHeaderAt(p) == ReadFields(file, p, SubHeader, 1)

FileBytes(p, len) == SubSeq(file, p + 1, p + len)

\* The sub-header at p compares, has paddedFirstImageLength >= 32, and
\* both sub-images it announces lie inside the file.
WellFormedSubHeader(p, r) ==
    /\ r.bad = 0
    /\ ~r.short
    /\ r.vals[2] >= 32
    /\ p + 32 + r.vals[1] <= Len(file)
    /\ r.vals[2] # 32 => p + r.vals[2] + r.vals[3] <= Len(file)

SelectedSubImage(p, r, full) ==
    IF full /\ r.vals[2] # 32
    THEN FileBytes(p + r.vals[2], r.vals[3])
    ELSE FileBytes(p + 32, r.vals[1])

\* C13: the payload extracted from a DualJPEG tile with a well-formed
\* sub-header is the second sub-image (secondImageLength bytes from
\* paddedFirstImageLength after the start of the sub-header) exactly when
\* reveal is on and paddedFirstImageLength # 32, and the first sub-image
\* (firstImageLength bytes right after the sub-header) otherwise; a raw
\* artifact of such a tile holds the sub-image the run's setting selects.
C13_DualPayloadIsTheSelectedSubImage ==
    /\ (pc = "stream" /\ j < numImages /\ pages[i + 1].imageType = "gvmp") =>
          \A r \in {SubHeaderAt(pos)} :
              WellFormedSubHeader(pos, r) =>
                  \A full \in BOOLEAN :
                      extractTile(file, pos, CurrentTile, "gvmp", full).raw
                          = SelectedSubImage(pos, r, full)
    /\ \A a \in 1..Len(tileLog) :
          (pages[tileLog[a].page + 1].imageType = "gvmp" /\ ~tileLog[a].skipped) =>
              \A r \in {SubHeaderAt(tileLog[a].start)} :
                  WellFormedSubHeader(tileLog[a].start, r) =>
                      /\ tileLog[a].rawLen
                             = Len(SelectedSubImage(tileLog[a].start, r, LoadFullImages))
                      /\ \A k \in RawArtifacts(tileLog[a].page, tileLog[a].tile) :
                            artifacts[k].data
                                = SelectedSubImage(tileLog[a].start, r, LoadFullImages)

\* With reveal on, a DualJPEG tile with a second sub-image was processed
\* and its raw artifact holds the second sub-image, not the first.
C13_Witness ==
    /\ LoadFullImages
    /\ \E a \in 1..Len(tileLog) :
          /\ pages[tileLog[a].page + 1].imageType = "gvmp"
          /\ ~tileLog[a].skipped
          /\ WellFormedSubHeader(tileLog[a].start, SubHeaderAt(tileLog[a].start))
          /\ SubHeaderAt(tileLog[a].start).vals[2] # 32
          /\ \E k \in RawArtifacts(tileLog[a].page, tileLog[a].tile) :
                /\ artifacts[k].data
                       = FileBytes(tileLog[a].start + SubHeaderAt(tileLog[a].start).vals[2],
                                   SubHeaderAt(tileLog[a].start).vals[3])
                /\ artifacts[k].data
                       # FileBytes(tileLog[a].start + 32,
                                   SubHeaderAt(tileLog[a].start).vals[1])

\* Every draw made so far: those of the canvas in the making and those of
\* the canvases exported, each with the page it belongs to.
Draws ==
    {[page |-> i, d |-> mergedImage.draws[k]] :
        k \in IF pc = "stream" THEN 1..Len(mergedImage.draws) ELSE {}}
    \cup UNION {{[page |-> artifacts[a].page, d |-> artifacts[a].data.draws[k]] :
                    k \in 1..Len(artifacts[a].data.draws)} :
                a \in {b \in 1..Len(artifacts) : artifacts[b].kind = "canvas"}}

\* C14: every composited tile is drawn at pixel origin (gridX * 256,
\* gridY * 256) of its own descriptor, whatever its index in the table and
\* whatever happened to the tiles before it; two composited tiles with the
\* same grid coordinates have the same origin.
C14_DrawnAtGridOrigin ==
    /\ \A e \in Draws :
          /\ e.d.x = pages[e.page + 1].images[e.d.tile + 1].gridPosW * 256
          /\ e.d.y = pages[e.page + 1].images[e.d.tile + 1].gridPosH * 256
    /\ \A e1, e2 \in Draws :
          (/\ pages[e1.page + 1].images[e1.d.tile + 1].gridPosW
                  = pages[e2.page + 1].images[e2.d.tile + 1].gridPosW
           /\ pages[e1.page + 1].images[e1.d.tile + 1].gridPosH
                  = pages[e2.page + 1].images[e2.d.tile + 1].gridPosH)
          => (e1.d.x = e2.d.x /\ e1.d.y = e2.d.y)

\* The tile at grid (2, 3) is drawn at (512, 768) as the second tile of
\* the table, after a first tile that was skipped or did not decode.
C14_Witness ==
    \E e \in Draws :
        /\ e.d.x = 512
        /\ e.d.y = 768
        /\ e.d.tile = 1
        /\ pages[e.page + 1].images[2].gridPosW = 2
        /\ pages[e.page + 1].images[2].gridPosH = 3
        /\ \E a \in Visits(e.page) : tileLog[a].tile = 0 /\ ~tileLog[a].decoded

\* C15: the canvas of a page, while its tiles are streamed and when it is
\* exported, is exactly width x height of that page's viewer header,
\* whatever was drawn on it.
C15_CanvasHasHeaderDimensions ==
    /\ pc = "stream" =>
          /\ mergedImage.w = pages[i + 1].imageWidth
          /\ mergedImage.h = pages[i + 1].imageHeight
    /\ \A a \in 1..Len(artifacts) :
          artifacts[a].kind = "canvas" =>
              /\ artifacts[a].data.w = pages[artifacts[a].page + 1].imageWidth
              /\ artifacts[a].data.h = pages[artifacts[a].page + 1].imageHeight

\* An exported canvas of 512 x 256 on which a tile was drawn that reaches
\* past its right or lower edge.
C15_Witness ==
    \E a \in 1..Len(artifacts) :
        /\ artifacts[a].kind = "canvas"
        /\ artifacts[a].data.w = 512
        /\ artifacts[a].data.h = 256
        /\ \E k \in 1..Len(artifacts[a].data.draws) :
              \/ artifacts[a].data.draws[k].x + artifacts[a].data.draws[k].dx > 512
              \/ artifacts[a].data.draws[k].y + artifacts[a].data.draws[k].dy > 256

\* Page p (1-based) passes the page filter.
Selected(p) == TargetPage = <<>> \/ pages[p].fileName = TargetPage

\* Nothing of the viewer block of page p has been read or written out.
Untouched(p) ==
    /\ pages[p].imageType = ""
    /\ pages[p].imageWidth = 0
    /\ pages[p].lengthDatabase = 0
    /\ pages[p].images = <<>>
    /\ Visits(p - 1) = {}
    /\ \A a \in 1..Len(artifacts) : artifacts[a].page # p - 1

\* The name of page p as the file holds it, without a trailing ".gvd".
ResolvedName(p) ==
    CutSuffix(FileBytes(totalLengthFirstPart + pages[p].offsetFileName,
                        pages[p].lengthFileName), GvdSuffix)

DatabaseFailures ==
    {"unknown database type", "does not compare", "not implemented",
     "integer divide by zero"}

\* C16: a page whose resolved name differs from a non-empty page filter
\* is left untouched (no viewer block read, no tile visited, no artifact)
\* and the run never fails in its viewer block; with an empty filter the
\* pages are processed one after the other in directory order.
C16_OnlySelectedPagesAreProcessed ==
    /\ \A p \in 1..Len(pages) : ~Selected(p) => Untouched(p)
    /\ (pc \in {"db", "viewer", "table", "stream", "done"} /\ "names" \notin ioerr) =>
          \A p \in 1..Len(pages) : pages[p].fileName = ResolvedName(p)
    /\ pc \in {"viewer", "table", "stream"} => Selected(i + 1)
    /\ (pc = "failed" /\ failure \in DatabaseFailures) => Selected(i + 1)
    /\ \A p \in 1..Len(pages) : p > i + 1 => Untouched(p)
    /\ (pc \in {"db", "done"} /\ ioerr = {}) =>
          \A p \in 1..i : Selected(p) => pages[p].imageType # ""
    /\ \A a, b \in 1..Len(artifacts) : a < b => artifacts[a].page <= artifacts[b].page

\* The run is done under the filter "b": the page named b was exported,
\* and another page, whose viewer key is neither literal, was passed over.
C16_Witness ==
    /\ pc = "done"
    /\ TargetPage = <<98>>
    /\ \E a \in 1..Len(artifacts) : pages[artifacts[a].page + 1].fileName = <<98>>
    /\ \E p \in 1..Len(pages) :
          /\ pages[p].fileName # TargetPage
          /\ readString(file, totalLengthFirstPart + pages[p].offsetDataBaseViewer, 16).buf
                 \notin {GVEW0100JPEG0100, GVEW0100GVMP0100}

\* C17: over the processing of a PlainJPEG tile the cursor advances by
\* exactly payloadLength + paddingLength, decoded or not.
C17_PlainTileAdvancesByLengthAndPadding ==
    \A a \in 1..Len(tileLog) :
        (/\ CleanReads
         /\ pages[tileLog[a].page + 1].imageType = "jpeg"
         /\ ~tileLog[a].skipped)
        => tileLog[a].end - tileLog[a].start
               = pages[tileLog[a].page + 1].images[tileLog[a].tile + 1].fileLength
                 + pages[tileLog[a].page + 1].images[tileLog[a].tile + 1].fileLengthPadding

\* C18: a processed DualJPEG tile leaves the cursor at the 16-byte
\* boundary reached after its sub-images; the paddingLength of its
\* descriptor is not skipped on top of that, decoded or not.
C18_DualTileEndsAtAlignment ==
    (pc = "stream" /\ j < numImages /\ pages[i + 1].imageType = "gvmp" /\ CleanReads) =>
        \A t \in {processTile(file, pos, CurrentTile, "gvmp", LoadFullImages)} :
            (~t.panic /\ ~t.io) => (t.aligned % 16 = 0 /\ t.pos = t.aligned)

\* The seeks of a DualJPEG tile one by one, from the cursor after its
\* sub-header r: over the first image (reveal on), or, after the read of n
\* bytes up to offset p, over the first padding and over the second image.
SeekOverFirst(r) == SeekCur(r.pos, r.vals[2] - 32)

SeekOverFirstPadding(r, n, p) == SeekCur(p, r.vals[2] - n - 32)

\* C19: while the payloads of a page are streamed no read and no skip
\* leaves the cursor before the position it had, whatever lengths the
\* descriptor and the sub-header hold.
C19_CursorNeverMovesBackward ==
    (pc = "stream" /\ j < numImages /\ CleanReads) =>
        /\ skipTile(pos, CurrentTile).pos >= pos
        /\ pages[i + 1].imageType = "gvmp" =>
              \A r \in {SubHeaderAt(pos)} :
                  (r.bad = 0 /\ ~r.short /\ r.vals[2] # 32) =>
                      /\ r.pos >= pos
                      /\ LoadFullImages => SeekOverFirst(r).pos >= r.pos
                      /\ ~LoadFullImages =>
                            \A n \in {r.vals[1]} :
                                \A p \in {r.pos + readBytes(file, r.pos, n).n} :
                                    /\ p >= r.pos
                                    /\ SeekOverFirstPadding(r, n, p).pos >= p
        /\ \A t \in {processTile(file, pos, CurrentTile, pages[i + 1].imageType,
                                 LoadFullImages)} :
              t.pos >= pos

\* The tiles of page p (0-based) were visited in the order 0, 1, 2, ...,
\* each once.
VisitedInOrder(p) ==
    \A a \in Visits(p) : tileLog[a].tile = Cardinality({b \in Visits(p) : b < a})

\* What each phase of the current page has read and visited so far.
PhaseContent ==
    /\ \A p \in 0..(Len(pages) - 1) : VisitedInOrder(p)
    /\ \A p \in 0..(i - 1) :
          Cardinality(Visits(p)) \in {0, Len(pages[p + 1].images)}
    /\ (pc \in {"db", "viewer", "table"} /\ i < Len(pages)) => Visits(i) = {}
    /\ pc = "viewer" => pages[i + 1].images = <<>>
    /\ pc = "table" => Len(pages[i + 1].images) = numImages
    /\ pc = "stream" =>
          /\ Len(pages[i + 1].images) = numImages
          /\ j <= numImages
          /\ Cardinality(Visits(i)) = j
          /\ \E k \in 2..Len(litChecks) :
                /\ litChecks[k].lit = StartImages
                /\ litChecks[k - 1].lit = BLK
                /\ litChecks[k - 1].pos = litChecks[k].pos - 8
                /\ CleanReads =>
                      \A a \in Visits(i) : tileLog[a].start >= litChecks[k].pos + 8

\* The steps between the phases of a page: Idle ("db"), HeaderParsed
\* ("viewer"), TileTableParsed ("table"), StreamingPayloads ("stream"),
\* Done (the next page's "db", or "done" after the last page), Failed.
PhaseStep ==
    /\ pc = "db" =>
          \/ pc' = "viewer" /\ i' = i
          \/ pc' = "db" /\ i' = i + 1
          \/ pc' = "done" /\ i = totalDataEntries
          \/ pc' = "failed"
    /\ pc = "viewer" => (pc' = "table" /\ i' = i) \/ pc' = "failed"
    /\ pc = "table" => (pc' = "stream" /\ i' = i /\ j' = 0) \/ pc' = "failed"
    /\ pc = "stream" =>
          \/ pc' = "stream" /\ i' = i /\ j < numImages /\ j' = j + 1
                /\ Len(tileLog') = Len(tileLog) + 1
                /\ tileLog'[Len(tileLog')].page = i
                /\ tileLog'[Len(tileLog')].tile = j
          \/ pc' = "db" /\ i' = i + 1 /\ j = numImages /\ tileLog' = tileLog
          \/ pc' = "failed" /\ tileLog' = tileLog
    /\ pc \in {"done", "failed"} => FALSE

\* C20: the phases of a page follow one another in the one order, failure
\* being the only other way out; no tile is visited before the tile
\* table, the second marker, the total payload length and the
\* payload-start literal were read; and the tiles 0 .. tileCount-1 are
\* visited in increasing order, each once.
C20_PhasesInOrder == [](PhaseContent) /\ [][PhaseStep]_vars

\* Both pages of a file are done: two tiles visited on the first, one on
\* the second.
C20_Witness ==
    /\ pc = "done"
    /\ i = 2
    /\ Len(tileLog) = 3
    /\ tileLog[1].page = 0 /\ tileLog[1].tile = 0
    /\ tileLog[2].page = 0 /\ tileLog[2].tile = 1
    /\ tileLog[3].page = 1 /\ tileLog[3].tile = 0

\* t is the outcome of a DualJPEG tile whose sub-header compared: the
\* cursor after the alignment is a multiple of 16, at or after the end of
\* the bytes consumed for the sub-images and less than 16 past it.
AlignedAfterPayload(t) ==
    ~t.panic =>
        /\ t.aligned % 16 = 0
        /\ t.aligned >= t.payloadEnd
        /\ t.aligned - t.payloadEnd < 16
        /\ t.payloadEnd % 16 = 0 => t.aligned = t.payloadEnd

\* C21: after the payload of a processed DualJPEG tile is consumed, with
\* reveal on or off, the cursor stands on a multiple of 16 fewer than 16
\* bytes past the end of the sub-images, and is not moved when it already
\* stood on one; every DualJPEG tile the run has processed ended so.
C21_DualTileIsAlignedTo16 ==
    /\ (pc = "stream" /\ j < numImages /\ pages[i + 1].imageType = "gvmp") =>
          \A full \in BOOLEAN :
              \A t \in {processTile(file, pos, CurrentTile, "gvmp", full)} :
                  AlignedAfterPayload(t)
    /\ \A a \in 1..Len(tileLog) :
          (pages[tileLog[a].page + 1].imageType = "gvmp" /\ ~tileLog[a].skipped) =>
              \A t \in {processTile(file, tileLog[a].start,
                                    pages[tileLog[a].page + 1].images[tileLog[a].tile + 1],
                                    "gvmp", LoadFullImages)} :
                  /\ AlignedAfterPayload(t)
                  /\ tileLog[a].end = t.pos
                  /\ ~tileLog[a].decoded => tileLog[a].end % 16 = 0

\* Two processed DualJPEG tiles: one whose sub-images end off a boundary
\* and whose cursor was moved up to it, one whose sub-images end on a
\* boundary and whose cursor was left there.
MovedToBoundary(a) ==
    /\ pages[tileLog[a].page + 1].imageType = "gvmp"
    /\ ~tileLog[a].skipped
    /\ \E t \in {processTile(file, tileLog[a].start,
                             pages[tileLog[a].page + 1].images[tileLog[a].tile + 1],
                             "gvmp", LoadFullImages)} :
          /\ ~t.panic
          /\ t.payloadEnd % 16 # 0
          /\ t.aligned = t.payloadEnd + 16 - (t.payloadEnd % 16)

C21_Witness == \E a \in 1..Len(tileLog) : MovedToBoundary(a)

(***************************************************************************)
(* What readDatabase does for one page, as a function of the file, the     *)
(* configuration and the page's directory entry alone: the cursor starts   *)
(* at 0, and the canvas, the overlap set and the output flag start as the  *)
(* page loop makes them.  out.arts are the artifacts and out.warns the     *)
(* overlap warnings of the page, up to the place where the page panics.    *)
(***************************************************************************)
PageArtifact(p, name, kind, tile, w, h, data, enc) ==
    [kind |-> kind, page |-> p, file |-> name, tile |-> tile,
     w |-> w, h |-> h, data |-> data, enc |-> enc]

NoOutcome == [arts |-> <<>>, warns |-> <<>>]

tileOutcome(p, name, k, img, t, st) ==
    IF ~t.ok
    THEN [st EXCEPT !.arts = Append(@, PageArtifact(p, name, "raw", k, -1, -1, t.raw, "none"))]
    ELSE [canvas |-> IF MergeImages
                     THEN drawOver(st.canvas,
                                   [tile |-> k, layer |-> img.layer,
                                    x |-> drawOrigin(img).x, y |-> drawOrigin(img).y,
                                    dx |-> t.dx, dy |-> t.dy])
                     ELSE st.canvas,
          seen |-> st.seen \cup {handleKey(img)},
          has |-> TRUE,
          arts |-> IF MergeImages THEN st.arts
                   ELSE Append(st.arts,
                               PageArtifact(p, name, "tile", k, img.gridPosW, img.gridPosH,
                                            [dx |-> t.dx, dy |-> t.dy], "jpeg")),
          warns |-> IF handleKey(img) \in st.seen
                    THEN Append(st.warns, [page |-> p, tile |-> k])
                    ELSE st.warns]

RECURSIVE pageTiles(_, _, _, _, _, _, _)
pageTiles(p, name, type, images, k, cur, st) ==
    IF k >= Len(images)
    THEN [arts |-> IF MergeImages /\ st.has
                   THEN Append(st.arts,
                               PageArtifact(p, name, "canvas", -1, -1, -1, st.canvas, "png"))
                   ELSE st.arts,
          warns |-> st.warns]
    ELSE IF TileFiltered(images[k + 1])
    THEN pageTiles(p, name, type, images, k + 1, skipTile(cur, images[k + 1]).pos, st)
    ELSE LET t == processTile(file, cur, images[k + 1], type, LoadFullImages)
         IN  IF t.panic
             THEN [arts |-> st.arts, warns |-> st.warns]
             ELSE pageTiles(p, name, type, images, k + 1, t.pos,
                            tileOutcome(p, name, k, images[k + 1], t, st))

pagePayload(p, name, type, w, h, tab, r2) ==
    IF r2.bad # 0 THEN NoOutcome
    ELSE pageTiles(p, name, type, tab.images, 0, r2.pos,
                   [canvas |-> [w |-> w, h |-> h, draws |-> <<>>], seen |-> {},
                    has |-> FALSE, arts |-> <<>>, warns |-> <<>>])

pageTable(p, name, type, r, tab) ==
    pagePayload(p, name, type, Val(r.vals, 1), Val(r.vals, 2), tab,
                ReadFields(file, tab.pos, <<BLK, U, StartImages>>, 1))

pageViewer(p, name, type, r) ==
    IF type = "" \/ r.bad # 0 \/ Val(r.vals, 4) = 0 THEN NoOutcome
    ELSE IF NumImages(Val(r.vals, 3), Val(r.vals, 4)) > 0 /\ Val(r.vals, 5) # 4
    THEN NoOutcome
    ELSE pageTable(p, name, type, r,
                   ReadImages(file, r.pos, NumImages(Val(r.vals, 3), Val(r.vals, 4)), <<>>))

pageAlone(p, name, offset) ==
    IF TargetPage # <<>> /\ TargetPage # name THEN NoOutcome
    ELSE pageViewer(p, name,
                    KeyType(readString(file, totalLengthFirstPart + offset, 16).buf),
                    ReadFields(file,
                               totalLengthFirstPart + offset
                                   + readString(file, totalLengthFirstPart + offset, 16).n,
                               ViewerFields, 1))

ArtifactsOf(p) == SelectSeq(artifacts, LAMBDA a : a.page = p)

WarningsOf(p) == SelectSeq(warnings, LAMBDA a : a.page = p)

\* The pages the run is through with: those before the current one, and
\* the current one when the run has failed in it.
Settled(p) ==
    /\ pc \in {"db", "viewer", "table", "stream", "done", "failed"}
    /\ pc = "failed" => failure \in DatabaseFailures
    /\ p < i \/ (p = i /\ pc = "failed")
    /\ p < Len(pages)

\* C22 as stated: when the run has ended, every page of the directory has
\* the artifacts it yields when processed alone, wherever it stands in the
\* order of the pages.
C22_EveryPageYieldsItsOwnArtifacts ==
    (pc = "done" \/ (pc = "failed" /\ failure \in DatabaseFailures)) =>
        \A p \in 0..(Len(pages) - 1) :
            ArtifactsOf(p)
                = pageAlone(p, pages[p + 1].fileName, pages[p + 1].offsetDataBaseViewer).arts

\* C22: what the run has written and warned for a page it is through with
\* is what that page yields when processed alone from a cursor at 0 with a
\* new canvas, an empty overlap set and a cleared output flag: a function
\* of the configuration, the page's directory entry and the file's bytes,
\* whatever pages were processed before it and in whatever order.
C22_PagesAreIndependent ==
    \A p \in 0..(Len(pages) - 1) :
        Settled(p) =>
            \A out \in {pageAlone(p, pages[p + 1].fileName, pages[p + 1].offsetDataBaseViewer)} :
                /\ ArtifactsOf(p) = out.arts
                /\ WarningsOf(p) = out.warns

\* The second page wrote its canvas with its one tile on it and without
\* an overlap warning, after a first page had drawn on its own canvas at
\* the same grid position and had set the output flag.
C22_Witness ==
    /\ pc = "done"
    /\ i = 2
    /\ MergeImages
    /\ warnings = <<>>
    /\ Len(artifacts) = 2
    /\ \A p \in 0..1 :
          /\ Canvases(p) # {}
          /\ \E a \in Visits(p) :
                /\ tileLog[a].decoded
                /\ tileLog[a].gridPosW = 0
                /\ tileLog[a].gridPosH = 0
    /\ Len(artifacts[2].data.draws) = 1

\* The tile loop stands at a tile of another layer than the one asked for.
AtExcludedTile ==
    /\ pc = "stream"
    /\ j < numImages
    /\ TargetLayer # -1
    /\ pages[i + 1].images[j + 1].layer # TargetLayer

\* The step taken changes the cursor and the loop counter, records the
\* visit as a skip without decode or payload, and leaves the canvas, the
\* overlap set, the output flag, the artifacts, the warnings, the compared
\* literals and the page's data as they are; the run goes on.
OnlyCursorMoves ==
    /\ UNCHANGED <<mergedImage, handled, hasAnyImageData, artifacts, warnings>>
    /\ UNCHANGED <<pages, numImages, i, pc, failure, litChecks, config, globals>>
    /\ pos' = pos + pages[i + 1].images[j + 1].fileLength
                  + pages[i + 1].images[j + 1].fileLengthPadding
    /\ j' = j + 1
    /\ Len(tileLog') = Len(tileLog) + 1
    /\ tileLog'[Len(tileLog')].skipped
    /\ ~tileLog'[Len(tileLog')].decoded
    /\ tileLog'[Len(tileLog')].rawLen = 0

\* C23: a step of the tile loop at a tile that the layer filter excludes
\* moves only the cursor (by payloadLength + paddingLength): nothing is
\* extracted or decoded, and the canvas, the overlap seen-set, the page's
\* has-output flag and the artifacts written stay exactly as they were.
C23_FilteredTileMovesOnlyTheCursor ==
    [][AtExcludedTile => OnlyCursorMoves]_vars

\* A tile was passed over by the layer filter in a page whose canvas has
\* a draw on it already and whose overlap set and output flag are set.
C23_Witness ==
    /\ pc = "stream"
    /\ j > 0
    /\ tileLog # <<>>
    /\ tileLog[Len(tileLog)].skipped
    /\ tileLog[Len(tileLog)].page = i
    /\ tileLog[Len(tileLog)].tile = j - 1
    /\ pos = tileLog[Len(tileLog)].end
    /\ mergedImage.draws # <<>>
    /\ handled # {}
    /\ hasAnyImageData

\* Where the tile table of the current page starts: after the 48 bytes of
\* the viewer header (key, width, height, BLK_, databaseLength, the
\* databases-start literal, entryStride, paramLength).
TableStart == totalLengthFirstPart + pages[i + 1].offsetDataBaseViewer + 48

\* Where the second marker of the current page was compared.
SecondMarkerAt(p) ==
    /\ Len(litChecks) >= 2
    /\ litChecks[Len(litChecks) - 1] = Check(BLK, p)
    /\ litChecks[Len(litChecks)] = Check(StartImages, p + 8)

TableParsed == pc = "table" \/ (pc = "stream" /\ j = 0)

\* C24 as stated: the table takes 32 bytes per descriptor, the second
\* marker is compared at table start + tileCount * 32, and that place is
\* table start + databaseLength only when entryStride = 32.
C24_MarkerAtDatabaseLengthOnlyForStride32 ==
    (TableParsed /\ CleanReads) =>
        /\ pc = "table" => pos = TableStart + numImages * 32
        /\ pc = "stream" => SecondMarkerAt(TableStart + numImages * 32)
        /\ TableStart + numImages * 32 = TableStart + pages[i + 1].lengthDatabase
              => pages[i + 1].entranceLength = 32

\* C24: with tileCount = databaseLength / entryStride, the table parse
\* takes exactly 32 bytes per descriptor whatever entryStride is, and the
\* second marker is compared at table start + tileCount * 32.  That place
\* is table start + databaseLength when entryStride = 32 divides
\* databaseLength, and is not when entryStride = 32 does not divide it;
\* for other strides it is exactly when tileCount * 32 = databaseLength.
C24_TableTakes32BytesPerDescriptor ==
    (TableParsed /\ CleanReads) =>
        /\ numImages = pages[i + 1].lengthDatabase \div pages[i + 1].entranceLength
        /\ Len(pages[i + 1].images) = numImages
        /\ pc = "table" => pos = TableStart + numImages * 32
        /\ pc = "stream" =>
              /\ SecondMarkerAt(TableStart + numImages * 32)
              /\ pos = TableStart + numImages * 32 + 16
        /\ pages[i + 1].entranceLength = 32 =>
              (TableStart + numImages * 32 = TableStart + pages[i + 1].lengthDatabase
                  <=> pages[i + 1].lengthDatabase % 32 = 0)

\* The second marker compared after a table of one descriptor read with an
\* entryStride of 16: 32 bytes after the table start, not databaseLength.
C24_Witness ==
    /\ pc = "stream"
    /\ j = 0
    /\ CleanReads
    /\ numImages = 1
    /\ pages[i + 1].entranceLength = 16
    /\ pages[i + 1].lengthDatabase = 16
    /\ SecondMarkerAt(TableStart + 32)

TilesVisited(p) == {tileLog[a].tile : a \in Visits(p)}

\* At most one canvas per page, and only for a page all of whose tiles
\* have been visited and that the run has left behind; none for the page
\* in which the run failed.
CanvasOnlyOfFinishedPage ==
    /\ \A p \in 0..(Len(pages) - 1) :
          /\ Cardinality(Canvases(p)) <= 1
          /\ Canvases(p) # {} =>
                /\ p < i
                /\ TilesVisited(p) = 0..(Len(pages[p + 1].images) - 1)
                /\ \A c \in Canvases(p) : \A b \in 1..Len(artifacts) :
                      (artifacts[b].page = p /\ b # c) => b < c
    /\ (pc = "failed" /\ i < Len(pages)) => Canvases(i) = {}

\* A step writes at most one artifact and takes none back; a canvas is
\* written only when the tile loop of the page has run out, and a step in
\* which the run fails writes nothing.
ArtifactsStep ==
    /\ Len(artifacts') \in {Len(artifacts), Len(artifacts) + 1}
    /\ SubSeq(artifacts', 1, Len(artifacts)) = artifacts
    /\ (Len(artifacts') > Len(artifacts) /\ artifacts'[Len(artifacts')].kind = "canvas") =>
          /\ pc = "stream"
          /\ j = numImages
          /\ Cardinality(Visits(i)) = numImages
          /\ artifacts'[Len(artifacts')].page = i
          /\ i' = i + 1
    /\ pc' = "failed" => artifacts' = artifacts

\* C25: the canvas of a page is written at most once, after every tile of
\* the page has been visited and after every other artifact of the page;
\* when the run fails in a page there is no canvas of that page, and the
\* artifacts written before the failure stay.
C25_CanvasWrittenOnceAfterAllTiles ==
    [](CanvasOnlyOfFinishedPage) /\ [][ArtifactsStep]_vars

\* The run failed at the sub-header of the second tile of a page whose
\* first tile had been written out raw, with merging on and nothing
\* decoded: the raw artifact is there, and no canvas.
C25_Witness ==
    /\ pc = "failed"
    /\ failure = "does not compare"
    /\ j = 1
    /\ MergeImages
    /\ Cardinality(Visits(i)) = 1
    /\ Canvases(i) = {}
    /\ RawArtifacts(i, 0) # {}
    /\ Len(artifacts) = 1

====
